---- MODULE Spec2Model ----
(***************************************************************************)
(* Model of the Valeur-K prediction bot: the tokenizer, the N-2 -> K       *)
(* correlator (collect_inter_data), the rule engine (should_predict), the  *)
(* smart-rule recomputation and the webhook handlers that drive them.      *)
(*                                                                         *)
(* A message text is modelled by the tokens the extractors look for:       *)
(*   game       the digits of "#N<digits>." / the blue-circle form, or None*)
(*   content    "none"  no parenthesized group in the text                 *)
(*              "empty" a first group whose stripped content is ""         *)
(*              "text"  a first group with non-empty content               *)
(*   cards      the <rank><suit> tokens of the first group, as written     *)
(*   pending    a clock glyph is present                                   *)
(*   completion a check-mark / beginner glyph is present                   *)
(*   score      the digits of "#T<digits>", or None                        *)
(* A card string such as "10" followed by a heart is the pair <<v, c>>.    *)
(*                                                                         *)
(* disk holds, per JSON file, the value last dumped into it; last records  *)
(* what the latest step was, what it returned and what it sent; inflight   *)
(* holds, per server thread, the update it is in the middle of handling.   *)
(***************************************************************************)
EXTENDS Integers, Sequences, FiniteSets, TLC

VARIABLES target_channel_id, prediction_channel_id, sequential_history,
          inter_data, is_inter_mode_active, smart_rules, predictions,
          disk, now, last, inflight

vars == <<target_channel_id, prediction_channel_id, sequential_history,
          inter_data, is_inter_mode_active, smart_rules, predictions,
          disk, now, last, inflight>>

\* ------------------------------------------------------------------------
\* Bounds of the model
\* ------------------------------------------------------------------------
MaxTime == 1

\* longest sample log loaded at construction
MaxLog == 5

\* ------------------------------------------------------------------------
\* Program constants
\* ------------------------------------------------------------------------
None == -1
WINDOW == 50
SCORE_THRESHOLD == 45
GAP_THRESHOLD == 4
TARGET_OFFSET == 2
TRIGGER_OFFSET == 2
prediction_cooldown == 30

Falsy(x) == x = None \/ x = 0

\* ------------------------------------------------------------------------
\* Tokenizer
\* ------------------------------------------------------------------------
\* raw suit glyphs: "S" spade, "H" heart, "H2" the red-heart variant,
\* "D" diamond, "C" club
NormalizeSuit(s) == IF s = "H2" THEN "H" ELSE s

Upper(v) == IF v = "k" THEN "K"
            ELSE IF v = "q" THEN "Q"
            ELSE IF v = "j" THEN "J"
            ELSE IF v = "a" THEN "A"
            ELSE v

extract_game_number(m) == m.game

extract_total_score(m) == m.score

\* None when there is no group; the stripped content otherwise
extract_first_parentheses_content(m) == m.content

\* the <<value, costume>> pairs of a group, value upper-cased, heart
\* variant normalized
extract_card_details(cards) ==
    [i \in 1..Len(cards) |-> <<Upper(cards[i].v), NormalizeSuit(cards[i].s)>>]

FirstTwo(s) == IF Len(s) <= 2 THEN s ELSE SubSeq(s, 1, 2)

get_first_two_cards(cards) == FirstTwo(extract_card_details(cards))

ContentTruthy(m) == extract_first_parentheses_content(m) = "text"

\* index of the first King among the card details, 0 when there is none
FirstKIndex(details) ==
    IF \E i \in 1..Len(details) : details[i][1] = "K"
    THEN CHOOSE i \in 1..Len(details) :
            /\ details[i][1] = "K"
            /\ \A j \in 1..(i-1) : details[j][1] # "K"
    ELSE 0

\* check_value_K_in_first_parentheses: <<>> stands for the None it returns
\* when there is no group, an empty group or no King; otherwise the first
\* King's <<value, costume>>
check_value_K_in_first_parentheses(m) ==
    IF ~ContentTruthy(m) THEN <<>>
    ELSE LET d == extract_card_details(m.cards)
             i == FirstKIndex(d)
         IN IF i = 0 THEN <<>> ELSE d[i]

\* has_pending_indicators, were a completion glyph to outweigh the clock
has_pending_unless_complete(m) == m.pending /\ ~m.completion

has_pending_indicators(m) == m.pending

has_completion_indicators(m) == m.completion

\* ------------------------------------------------------------------------
\* Dictionaries (Python dict keyed by game number)
\* ------------------------------------------------------------------------
EmptyDict == [k \in {} |-> 0]

Put(d, k, v) == [x \in (DOMAIN d) \cup {k} |-> IF x = k THEN v ELSE d[x]]

Restrict(d, S) == [x \in S |-> d[x]]

\* ------------------------------------------------------------------------
\* Trigger-result correlator
\* ------------------------------------------------------------------------
\* RecordGame, were it to keep the first record of a game
RecordGameFirstWrite(sh, game_number, first_two_cards, t) ==
    IF Len(first_two_cards) = 2 /\ game_number \notin DOMAIN sh
    THEN Put(sh, game_number, [cartes |-> first_two_cards, date |-> t])
    ELSE sh

\* step 1 of collect_inter_data: sequential_history[game_number] = {...}
\* when the first group yields two cards
RecordGame(sh, game_number, first_two_cards, t) ==
    IF Len(first_two_cards) = 2
    THEN Put(sh, game_number, [cartes |-> first_two_cards, date |-> t])
    ELSE sh

\* is_duplicate, were it to compare the trigger game
is_duplicate_on_trigger(idata, game_number) ==
    \E i \in 1..Len(idata) : idata[i].numero_declencheur = game_number

\* the anti-duplicate check on numero_resultat
is_duplicate(idata, game_number) ==
    \E i \in 1..Len(idata) : idata[i].numero_resultat = game_number

\* Cleanup, were it to drop nothing
CleanupSkipped(sh, game_number) == sh

\* step 4 of collect_inter_data: drop the entries older than 50 games
Cleanup(sh, game_number) ==
    LET obsolete_game_limit == game_number - WINDOW
    IN Restrict(sh, {num \in DOMAIN sh : num >= obsolete_game_limit})

\* new_entry, were it to take the cards of the outcome game itself
new_entry_own_cards(sh, game_number, n_minus_2_game, k_card_details, t) ==
    [numero_resultat |-> game_number,
     declencheur |-> IF game_number \in DOMAIN sh
                     THEN sh[game_number].cartes
                     ELSE sh[n_minus_2_game].cartes,
     numero_declencheur |-> n_minus_2_game,
     carte_k |-> k_card_details,
     date_resultat |-> t]

\* the sample appended to inter_data
new_entry(sh, game_number, n_minus_2_game, k_card_details, t) ==
    [numero_resultat |-> game_number,
     declencheur |-> sh[n_minus_2_game].cartes,
     numero_declencheur |-> n_minus_2_game,
     carte_k |-> k_card_details,
     date_resultat |-> t]

\* the same, the new sample put at the head of the log
collect_tail_newest_first(sh1, idata, game_number, m, t, dup) ==
    LET k_card_details == check_value_K_in_first_parentheses(m)
        n_minus_2_game == game_number - TRIGGER_OFFSET
    IN IF k_card_details # <<>> /\ n_minus_2_game \in DOMAIN sh1
       THEN IF dup
            THEN [sh |-> sh1, idata |-> idata, saved |-> FALSE,
                  sh_saved |-> sh1]
            ELSE [sh |-> Cleanup(sh1, game_number),
                  idata |-> <<new_entry(sh1, game_number, n_minus_2_game,
                                        k_card_details, t)>> \o idata,
                  saved |-> TRUE, sh_saved |-> sh1]
       ELSE [sh |-> Cleanup(sh1, game_number), idata |-> idata,
             saved |-> FALSE, sh_saved |-> sh1]

\* collect_inter_data from the search of the K on (lines 213-250), over
\* the history sh1 that holds the record of the game, given the outcome
\* dup of the duplicate check.  The result is the new sequential_history
\* and inter_data, whether _save_all_data ran, and the sequential_history
\* it wrote (the save comes before the cleanup).
collect_tail(sh1, idata, game_number, m, t, dup) ==
    LET k_card_details == check_value_K_in_first_parentheses(m)
        n_minus_2_game == game_number - TRIGGER_OFFSET
    IN IF k_card_details # <<>> /\ n_minus_2_game \in DOMAIN sh1
       THEN IF dup
            THEN [sh |-> sh1, idata |-> idata, saved |-> FALSE,
                  sh_saved |-> sh1]
            ELSE [sh |-> Cleanup(sh1, game_number),
                  idata |-> Append(idata,
                               new_entry(sh1, game_number, n_minus_2_game,
                                         k_card_details, t)),
                  saved |-> TRUE, sh_saved |-> sh1]
       ELSE [sh |-> Cleanup(sh1, game_number), idata |-> idata,
             saved |-> FALSE, sh_saved |-> sh1]

\* collect_inter_data(game_number, message) at time t
collect_inter_data(sh, idata, game_number, m, t) ==
    IF ~ContentTruthy(m)
    THEN [sh |-> sh, idata |-> idata, saved |-> FALSE, sh_saved |-> sh]
    ELSE collect_tail(RecordGame(sh, game_number,
                                 get_first_two_cards(m.cards), t),
                      idata, game_number, m, t,
                      is_duplicate(idata, game_number))

\* ------------------------------------------------------------------------
\* Smart rules
\* ------------------------------------------------------------------------
RECURSIVE FirstSeen(_)
\* the distinct trigger pairs of the log, in the order a dict keeps them
FirstSeen(idata) ==
    IF idata = <<>> THEN <<>>
    ELSE LET front == FirstSeen(SubSeq(idata, 1, Len(idata) - 1))
             key == idata[Len(idata)].declencheur
         IN IF \E i \in 1..Len(front) : front[i] = key
            THEN front ELSE Append(front, key)

CountOf(idata, key) ==
    Cardinality({i \in 1..Len(idata) : idata[i].declencheur = key})

\* sorted_declencheurs, were the pairs left in the order of the dict
sorted_declencheurs_unsorted(idata) ==
    LET keys == FirstSeen(idata)
    IN [p \in 1..Len(keys) |->
          [cards |-> keys[p], count |-> CountOf(idata, keys[p])]]

\* sorted(..., key=count, reverse=True): a stable sort, equal counts keep
\* their first-seen order
sorted_declencheurs(idata) ==
    LET keys == FirstSeen(idata)
        n == Len(keys)
        Before(i, j) ==
            \/ CountOf(idata, keys[i]) > CountOf(idata, keys[j])
            \/ CountOf(idata, keys[i]) = CountOf(idata, keys[j]) /\ i < j
        Pos(i) == 1 + Cardinality({j \in 1..n : Before(j, i)})
    IN [p \in 1..n |->
          LET i == CHOOSE i \in 1..n : Pos(i) = p
          IN [cards |-> keys[i], count |-> CountOf(idata, keys[i])]]

top_3(idata) ==
    LET sorted == sorted_declencheurs(idata)
    IN IF Len(sorted) <= 3 THEN sorted ELSE SubSeq(sorted, 1, 3)

\* analyze_and_set_smart_rules, were an empty result to leave the flag alone
analyze_keeping_flag(idata, active, initial_load) ==
    LET top == top_3(idata)
    IN [smart_rules |-> top,
        is_inter_mode_active |-> IF top # <<>> THEN TRUE ELSE active]

\* analyze_and_set_smart_rules(initial_load): the new rule set and mode flag
\* (both are then saved by the caller of this operator)
analyze_and_set_smart_rules(idata, active, initial_load) ==
    LET top == top_3(idata)
    IN [smart_rules |-> top,
        is_inter_mode_active |->
            IF top # <<>> THEN TRUE
            ELSE IF ~initial_load THEN FALSE
            ELSE active]

\* the rule set, were collect_inter_data to recompute it after an append
rules_recomputed_on_append(rules, idata, appended) ==
    IF appended THEN top_3(idata) ELSE rules

\* collect_inter_data appends the sample and saves (lines 241-242); it
\* does not call analyze_and_set_smart_rules: the rule set stays
rules_after_collect(rules, idata, appended) == rules

\* ------------------------------------------------------------------------
\* Rule engine.  A decision is the name of the rule that set
\* predicted_value ("none" while it is still None); the value is always "K".
\* ------------------------------------------------------------------------
\* inter_logic, were the mode flag not looked at
inter_logic_ignoring_mode(m, active, rules) ==
    IF rules # <<>>
    THEN LET current_trigger == get_first_two_cards(m.cards)
         IN IF \E i \in 1..Len(rules) : rules[i].cards = current_trigger
            THEN "inter" ELSE "none"
    ELSE "none"

\* inter_logic, were it to compare the cards as a set
inter_logic_unordered(m, active, rules) ==
    IF active /\ rules # <<>>
    THEN LET current == get_first_two_cards(m.cards)
         IN IF \E i \in 1..Len(rules) :
                  {rules[i].cards[j] : j \in 1..Len(rules[i].cards)}
                     = {current[j] : j \in 1..Len(current)}
            THEN "inter" ELSE "none"
    ELSE "none"

\* 1. LOGIQUE INTER: the first two cards equal the cards of a smart rule
inter_logic(m, active, rules) ==
    IF active /\ rules # <<>>
    THEN LET current_trigger == get_first_two_cards(m.cards)
         IN IF \E i \in 1..Len(rules) : rules[i].cards = current_trigger
            THEN "inter" ELSE "none"
    ELSE "none"

has_10_heart(card_details) ==
    \E i \in 1..Len(card_details) : card_details[i] = <<"10", "H">>

\* score_rule, were the threshold one lower
score_rule_from_44(m) ==
    LET total_score == extract_total_score(m)
    IN ~Falsy(total_score) /\ total_score >= SCORE_THRESHOLD - 1

score_rule(m) ==
    LET total_score == extract_total_score(m)
    IN ~Falsy(total_score) /\ total_score >= SCORE_THRESHOLD

MaxOutcome(idata) ==
    CHOOSE g \in {idata[i].numero_resultat : i \in 1..Len(idata)} :
        \A i \in 1..Len(idata) : idata[i].numero_resultat <= g

\* the gap rule: the last King lies GAP_THRESHOLD games or more behind
gap_rule(idata, game_number) ==
    game_number - MaxOutcome(idata) >= GAP_THRESHOLD

\* 2. LOGIQUE STATIQUE: the if / elif / elif chain entered when the inter
\* logic predicted nothing
static_chain(m, idata, game_number, predicted) ==
    IF has_10_heart(extract_card_details(m.cards)) THEN "ten_heart"
    ELSE IF predicted = "none"
         THEN (IF score_rule(m) THEN "score" ELSE predicted)
    ELSE IF predicted = "none" /\ idata # <<>>
         THEN (IF gap_rule(idata, game_number) THEN "gap" ELSE predicted)
    ELSE predicted

\* static_logic, were the static rules to run whatever the inter logic said
static_logic_always(m, idata, game_number, predicted) ==
    LET s == static_chain(m, idata, game_number, "none")
    IN IF s # "none" THEN s ELSE predicted

static_logic(m, idata, game_number, predicted) ==
    IF predicted = "none"
    THEN static_chain(m, idata, game_number, predicted)
    ELSE predicted

\* the decision of the block guarded by "if first_group_content:"
Decide(m, idata, active, rules, game_number) ==
    IF ContentTruthy(m)
    THEN static_logic(m, idata, game_number, inter_logic(m, active, rules))
    ELSE "none"

\* the end of should_predict: a set predicted_value is returned
ShouldPredictTail(predicted, game_number, preds) ==
    predicted # "none"

\* channel_configured, were the check left out
channel_configured_always(tchan) == TRUE

\* "if not self.target_channel_id": the channel the messages are read from
channel_configured(tchan) == ~Falsy(tchan)

NoPrediction(sh, idata, collected, saved, sh_saved) ==
    [predict |-> FALSE, game |-> None, rule |-> "none",
     sh |-> sh, idata |-> idata, collected |-> collected, saved |-> saved,
     sh_saved |-> sh_saved]

\* should_predict after its call of collect_inter_data, whose effect is c:
\* the indicator tests, the rules and the return
decide_after_collect(m, active, rules, preds, game_number, c) ==
    IF has_pending_indicators(m)
    THEN NoPrediction(c.sh, c.idata, TRUE, c.saved, c.sh_saved)
    ELSE IF ~has_completion_indicators(m)
    THEN NoPrediction(c.sh, c.idata, TRUE, c.saved, c.sh_saved)
    ELSE IF ShouldPredictTail(Decide(m, c.idata, active, rules, game_number),
                              game_number, preds)
    THEN [predict |-> TRUE, game |-> game_number,
          rule |-> Decide(m, c.idata, active, rules, game_number),
          sh |-> c.sh, idata |-> c.idata,
          collected |-> TRUE, saved |-> c.saved,
          sh_saved |-> c.sh_saved]
    ELSE NoPrediction(c.sh, c.idata, TRUE, c.saved, c.sh_saved)

\* should_predict(message) at time t: the returned triple (predict, game,
\* rule standing for the value "K") and the correlator's effect
should_predict(tchan, sh, idata, active, rules, preds, m, t) ==
    IF ~channel_configured(tchan) THEN NoPrediction(sh, idata, FALSE, FALSE, sh)
    ELSE IF Falsy(extract_game_number(m))
    THEN NoPrediction(sh, idata, FALSE, FALSE, sh)
    ELSE decide_after_collect(m, active, rules, preds,
             extract_game_number(m),
             collect_inter_data(sh, idata, extract_game_number(m), m, t))

\* can_make_prediction() at time t; no caller in the code
can_make_prediction(last_prediction_time, t) ==
    IF Falsy(last_prediction_time) THEN TRUE
    ELSE t > last_prediction_time + prediction_cooldown

\* ------------------------------------------------------------------------
\* Prediction store and verifier
\* ------------------------------------------------------------------------
\* make_prediction(game_number, predicted_value): the record for the
\* target game, pending, without a message handle
make_prediction(preds, game_number, value) ==
    Put(preds, game_number + TARGET_OFFSET,
        [predicted |-> value, status |-> "pending", message_id |-> None])

\* _verify_prediction_common(message): a pending record of the message's
\* game is resolved by a message with a completion indicator
verify_prediction_common(preds, m) ==
    LET game_number == extract_game_number(m)
    IN IF /\ game_number \in DOMAIN preds
          /\ preds[game_number].status = "pending"
          /\ has_completion_indicators(m)
       THEN [preds |-> [preds EXCEPT ![game_number].status =
                          IF check_value_K_in_first_parentheses(m) # <<>>
                          THEN "confirmed" ELSE "failed"],
             action |-> TRUE, predicted_game |-> game_number]
       ELSE [preds |-> preds, action |-> FALSE, predicted_game |-> None]

\* what the platform answers to a send: None when the request failed or
\* was refused, NoIdentifier for an "ok" answer that holds no message id,
\* otherwise the message id
NoIdentifier == 0

Send(type, predicted_game) ==
    [method |-> "sendMessage", type |-> type,
     predicted_game |-> predicted_game, message_id |-> None]

\* store_handle, were the record never found
store_handle_never(preds, predicted_game, result) == preds

\* "if result and result.get('ok')": the message id goes to the record of
\* predicted_game, if there is one
store_handle(preds, predicted_game, result) ==
    IF result # None /\ result # NoIdentifier
       /\ predicted_game \in DOMAIN preds
    THEN [preds EXCEPT ![predicted_game].message_id = result]
    ELSE preds

\* edit_or_send, were the stored handle not looked at
edit_or_send_fresh(preds, type, predicted_game) ==
    <<Send(type, predicted_game)>>

\* the edit_message branch: edit the stored message, or send a new one
edit_or_send(preds, type, predicted_game) ==
    LET message_id == IF predicted_game \in DOMAIN preds
                      THEN preds[predicted_game].message_id ELSE None
    IN IF ~Falsy(message_id)
       THEN <<[method |-> "editMessageText", type |-> type,
               predicted_game |-> predicted_game,
               message_id |-> message_id]>>
       ELSE <<Send(type, predicted_game)>>

\* process_prediction_action(action): type is "new_prediction" or
\* "edit_message"; result is the platform's answer to the send of a new
\* prediction.  saved: _save_all_data ran (an answer without message id
\* raises before it)
process_prediction_action(preds, pchan, type, predicted_game, result) ==
    IF Falsy(pchan)
    THEN [preds |-> preds, sends |-> <<>>, saved |-> FALSE]
    ELSE IF type = "new_prediction"
    THEN [preds |-> store_handle(preds, predicted_game, result),
          sends |-> <<Send(type, predicted_game)>>,
          saved |-> result # NoIdentifier]
    ELSE IF type = "edit_message"
    THEN [preds |-> preds,
          sends |-> edit_or_send(preds, type, predicted_game),
          saved |-> TRUE]
    ELSE [preds |-> preds, sends |-> <<>>, saved |-> TRUE]

\* process_prediction_action raises: result['result']['message_id'] on an
\* "ok" answer that holds no message id is a KeyError
delivery_raises(pchan, type, result) ==
    ~Falsy(pchan) /\ type = "new_prediction" /\ result = NoIdentifier

\* ------------------------------------------------------------------------
\* Persistence: the JSON files, by the value last dumped into each
\* ------------------------------------------------------------------------
\* _save_all_data()
save_all_data(d, preds, idata, sh, active, rules) ==
    [d EXCEPT !.predictions = preds, !.inter_data = idata,
              !.sequential_history = sh, !.inter_mode_status = active,
              !.smart_rules = rules]

\* _save_channels_config()
save_channels_config(d, tchan, pchan) ==
    [d EXCEPT !.target_channel_id = tchan, !.prediction_channel_id = pchan]

\* a failed write that is not caught
save_raises_uncaught(writable) == ~writable

\* _save_data: whether the call raises to its caller when the file system
\* refuses the write; "except Exception" logs the failure and returns
save_raises(writable) == FALSE

\* the files after a save into them: written when the file system accepts
\* the write, left as they were when it refuses
written(writable, d, saved) == IF writable THEN saved ELSE d

\* ------------------------------------------------------------------------
\* Inputs
\* ------------------------------------------------------------------------
Card(v, s) == [v |-> v, s |-> s]

Msg(game, content, cards, pending, completion, score, slash) ==
    [game |-> game, content |-> content, cards |-> cards,
     pending |-> pending, completion |-> completion, score |-> score,
     slash |-> slash]

NoMsg == Msg(None, "none", <<>>, FALSE, FALSE, None, FALSE)

\* chat ids: the source channel's, the output channel's
Chats == {11, 12}

SourceChats == {11}

MessageIds == {7}

\* game numbers: 0, two low games two apart, two games two apart that lie
\* more than WINDOW above the low ones
Games == {0, 1, 3, WINDOW + 3, WINDOW + 5}

\* ------------------------------------------------------------------------
\* State
\* ------------------------------------------------------------------------
\* last: what the latest step was and what it returned / sent
NoLast == [kind |-> "init", chat |-> None, msg |-> NoMsg, reached |-> FALSE,
           collected |-> FALSE, appended |-> FALSE, predict |-> FALSE,
           rule |-> "none", sends |-> <<>>, result |-> None,
           writable |-> TRUE, flushed |-> FALSE, raised |-> FALSE]

\* the threads of the web server that handle updates
Threads == {1, 2}

\* a thread between two updates
Idle == [pc |-> "idle", chat |-> None, msg |-> NoMsg, dup |-> FALSE]

NoThreads == [t \in Threads |-> Idle]

\* the files before anything was saved: each load gives its default
NoFiles ==
    [predictions |-> EmptyDict, inter_data |-> <<>>,
     sequential_history |-> EmptyDict, inter_mode_status |-> FALSE,
     smart_rules |-> <<>>, target_channel_id |-> None,
     prediction_channel_id |-> None]

Init ==
    /\ target_channel_id = None
    /\ prediction_channel_id = None
    /\ sequential_history = EmptyDict
    /\ inter_data = <<>>
    /\ is_inter_mode_active = FALSE
    /\ smart_rules = <<>>
    /\ predictions = EmptyDict
    /\ disk = NoFiles
    /\ now = 0
    /\ last = NoLast
    /\ inflight = NoThreads

\* __init__ with the files inter_data.json, inter_mode_status.json and
\* smart_rules.json holding idata, status and rules, and no other file: the
\* loads, then the analysis "if self.inter_data and not
\* self.is_inter_mode_active"
Construct(idata, status, rules) ==
    LET analyzed == idata # <<>> /\ ~status
        r == IF analyzed
             THEN analyze_and_set_smart_rules(idata, status, TRUE)
             ELSE [smart_rules |-> rules, is_inter_mode_active |-> status]
    IN /\ target_channel_id = None
       /\ prediction_channel_id = None
       /\ sequential_history = EmptyDict
       /\ inter_data = idata
       /\ is_inter_mode_active = r.is_inter_mode_active
       /\ smart_rules = r.smart_rules
       /\ predictions = EmptyDict
       /\ disk = [NoFiles EXCEPT
                    !.inter_data = idata,
                    !.inter_mode_status = r.is_inter_mode_active,
                    !.smart_rules = r.smart_rules]
       /\ now = 0
       /\ last = [NoLast EXCEPT
                    !.kind = IF analyzed THEN "init_analyzed" ELSE "init"]
       /\ inflight = NoThreads

\* ------------------------------------------------------------------------
\* Handlers
\* ------------------------------------------------------------------------
\* every role taken as a binding of both channels
set_channel_id_any_role(tchan, pchan, channel_id, channel_type) ==
    [target |-> channel_id, prediction |-> channel_id, ok |-> TRUE]

\* set_channel_id(channel_id, channel_type)
set_channel_id(tchan, pchan, channel_id, channel_type) ==
    IF channel_type = "source"
    THEN [target |-> channel_id, prediction |-> pchan, ok |-> TRUE]
    ELSE IF channel_type = "prediction"
    THEN [target |-> tchan, prediction |-> channel_id, ok |-> TRUE]
    ELSE [target |-> tchan, prediction |-> pchan, ok |-> FALSE]

\* _handle_callback_query, data = config_source / config_prediction
\* while the file system accepts writes (writable) or refuses them
CallbackConfigW(chat, channel_type, writable) ==
    LET r == set_channel_id(target_channel_id, prediction_channel_id,
                            chat, channel_type)
    IN /\ target_channel_id' = r.target
       /\ prediction_channel_id' = r.prediction
       /\ disk' = IF r.ok
                  THEN written(writable, disk,
                           save_channels_config(disk, r.target,
                                                r.prediction))
                  ELSE disk
       /\ last' = [NoLast EXCEPT !.kind = channel_type, !.chat = chat,
                                 !.writable = writable,
                                 !.flushed = r.ok /\ writable]
       /\ UNCHANGED <<sequential_history, inter_data, is_inter_mode_active,
                      smart_rules, predictions, now, inflight>>

CallbackConfig(chat, channel_type) ==
    CallbackConfigW(chat, channel_type, TRUE)

\* _handle_callback_query, data = inter_apply
CallbackInterApplyW(writable) ==
    LET r == analyze_and_set_smart_rules(inter_data, is_inter_mode_active,
                                         FALSE)
    IN /\ smart_rules' = r.smart_rules
       /\ is_inter_mode_active' = r.is_inter_mode_active
       /\ disk' = written(writable, disk,
                      [disk EXCEPT
                         !.inter_mode_status = r.is_inter_mode_active,
                         !.smart_rules = r.smart_rules])
       /\ last' = [NoLast EXCEPT !.kind = "inter_apply",
                                 !.writable = writable]
       /\ UNCHANGED <<target_channel_id, prediction_channel_id,
                      sequential_history, inter_data, predictions, now,
                      inflight>>

CallbackInterApply == CallbackInterApplyW(TRUE)

\* _handle_callback_query, data = inter_default
CallbackInterDefaultW(writable) ==
    /\ is_inter_mode_active' = FALSE
    /\ disk' = written(writable, disk,
                   [disk EXCEPT !.inter_mode_status = FALSE])
    /\ last' = [NoLast EXCEPT !.kind = "inter_default",
                              !.writable = writable]
    /\ UNCHANGED <<target_channel_id, prediction_channel_id,
                   sequential_history, inter_data, smart_rules, predictions,
                   now, inflight>>

CallbackInterDefault == CallbackInterDefaultW(TRUE)

\* _process_channel_message(message), its end: the state and the files
\* after the verification (a1), the decision (sp) and the delivery of the
\* new prediction (a2).  A save that raised would end the handling where
\* it stands: after the verification (x1) or inside collect_inter_data,
\* before the cleanup (x2).
ChannelMessageDone(kind, chat, m, result, writable, a1, sp, a2) ==
    LET x1 == a1.saved /\ save_raises(writable)
        x2 == ~x1 /\ sp.saved /\ save_raises(writable)
        d1 == IF a1.saved
              THEN written(writable, disk,
                       save_all_data(disk, a1.preds, inter_data,
                           sequential_history, is_inter_mode_active,
                           smart_rules))
              ELSE disk
        d2 == IF sp.saved /\ ~x1
              THEN written(writable, d1,
                       save_all_data(d1, a1.preds, sp.idata, sp.sh_saved,
                           is_inter_mode_active, smart_rules))
              ELSE d1
        d3 == IF a2.saved /\ ~x1 /\ ~x2
              THEN written(writable, d2,
                       save_all_data(d2, a2.preds, sp.idata, sp.sh,
                           is_inter_mode_active, smart_rules))
              ELSE d2
    IN /\ sequential_history' =
              IF x1 THEN sequential_history
              ELSE IF x2 THEN sp.sh_saved ELSE sp.sh
       /\ inter_data' = IF x1 THEN inter_data ELSE sp.idata
       /\ predictions' = IF x1 \/ x2 THEN a1.preds ELSE a2.preds
       /\ disk' = d3
       /\ last' = [kind |-> kind, chat |-> chat, msg |-> m, reached |-> TRUE,
                   collected |-> ~x1 /\ sp.collected,
                   appended |-> ~x1 /\ sp.saved,
                   predict |-> ~x1 /\ ~x2 /\ sp.predict,
                   rule |-> IF x1 \/ x2 THEN "none" ELSE sp.rule,
                   sends |-> IF x1 \/ x2 THEN a1.sends
                             ELSE a1.sends \o a2.sends,
                   result |-> IF sp.predict THEN result ELSE None,
                   writable |-> writable,
                   flushed |-> a2.saved /\ writable /\ ~x1 /\ ~x2,
                   raised |-> /\ sp.predict /\ ~x1 /\ ~x2
                              /\ delivery_raises(prediction_channel_id,
                                     "new_prediction", result)]
       /\ smart_rules' = rules_after_collect(smart_rules, sp.idata,
                                             ~x1 /\ sp.saved)
       /\ UNCHANGED <<target_channel_id, prediction_channel_id,
                      is_inter_mode_active, now>>

\* _process_channel_message(message), step 2: the new prediction is
\* recorded and delivered when should_predict returned one
ChannelMessageDecided(kind, chat, m, result, writable, a1, sp) ==
    ChannelMessageDone(kind, chat, m, result, writable, a1, sp,
        IF sp.predict
        THEN process_prediction_action(
                 make_prediction(a1.preds, sp.game, "K"),
                 prediction_channel_id, "new_prediction",
                 sp.game + TARGET_OFFSET, result)
        ELSE [preds |-> a1.preds, sends |-> <<>>, saved |-> FALSE])

\* _process_channel_message(message), after step 1: should_predict (which
\* collects) over the predictions the verification left
ChannelMessageVerified(kind, chat, m, result, writable, a1) ==
    ChannelMessageDecided(kind, chat, m, result, writable, a1,
        should_predict(target_channel_id, sequential_history, inter_data,
                       is_inter_mode_active, smart_rules, a1.preds, m, now))

\* the outcome of step 1 of _process_channel_message: the verification
\* and, when it produced an action, its delivery
verification_step(v, pchan) ==
    IF v.action
    THEN process_prediction_action(v.preds, pchan, "edit_message",
                                   v.predicted_game, None)
    ELSE [preds |-> v.preds, sends |-> <<>>, saved |-> FALSE]

\* _process_channel_message(message): verify, then decide (which collects),
\* then record and deliver the new prediction
ProcessChannelMessageW(kind, chat, m, result, writable) ==
    /\ ChannelMessageVerified(kind, chat, m, result, writable,
           verification_step(verify_prediction_common(predictions, m),
                             prediction_channel_id))
    /\ UNCHANGED inflight

ProcessChannelMessage(kind, chat, m, result) ==
    ProcessChannelMessageW(kind, chat, m, result, TRUE)

Ignored(kind, chat, m) ==
    /\ last' = [NoLast EXCEPT !.kind = kind, !.chat = chat, !.msg = m]
    /\ UNCHANGED <<disk, inflight>>
    /\ UNCHANGED <<target_channel_id, prediction_channel_id,
                   sequential_history, inter_data, is_inter_mode_active,
                   smart_rules, predictions, now>>

\* an update that lacks a field the handlers index: message['chat'] in
\* _handle_message / _handle_edited_message, callback_query['data'],
\* ['message'] or ['id'] in _handle_callback_query, a field of
\* my_chat_member in handle_update; the KeyError is raised before anything
\* else is done and caught by the handler's or handle_update's "except
\* Exception"
MalformedUpdate ==
    /\ last' = [NoLast EXCEPT !.kind = "malformed", !.raised = TRUE]
    /\ UNCHANGED <<disk, inflight>>
    /\ UNCHANGED <<target_channel_id, prediction_channel_id,
                   sequential_history, inter_data, is_inter_mode_active,
                   smart_rules, predictions, now>>

\* _handle_callback_query, data = config_cancel: the prompt is edited
CallbackCancel(chat) == Ignored("cancel", chat, NoMsg)

\* handle_update, my_chat_member: the bot was added to a chat and sends the
\* configuration prompt there
MyChatMember(chat) == Ignored("my_chat_member", chat, NoMsg)

\* _handle_message, were it to process every message of every chat
HandleMessageAnyChat(chat, m, result, writable) ==
    ProcessChannelMessageW("message", chat, m, result, writable)

\* _handle_message: a new message or channel post
HandleMessageW(chat, m, result, writable) ==
    IF m.slash THEN Ignored("message", chat, m)
    ELSE IF chat = target_channel_id
    THEN ProcessChannelMessageW("message", chat, m, result, writable)
    ELSE Ignored("message", chat, m)

HandleMessage(chat, m, result) == HandleMessageW(chat, m, result, TRUE)

\* _handle_edited_message: an edited message or channel post
HandleEditedMessage(chat, m, result) ==
    IF chat = target_channel_id
    THEN ProcessChannelMessage("edited", chat, m, result)
    ELSE Ignored("edited", chat, m)

\* the wall clock read by datetime.now()
Tick ==
    /\ now < MaxTime
    /\ now' = now + 1
    /\ last' = [NoLast EXCEPT !.kind = "tick"]
    /\ UNCHANGED <<disk, inflight>>
    /\ UNCHANGED <<target_channel_id, prediction_channel_id,
                   sequential_history, inter_data, is_inter_mode_active,
                   smart_rules, predictions>>

\* ------------------------------------------------------------------------
\* Specification of the correlator: source messages over all game numbers
\* ------------------------------------------------------------------------
K_S == Card("K", "S")
D_7 == Card("7", "D")

Text(content, cards, pending, completion) ==
    [content |-> content, cards |-> cards, pending |-> pending,
     completion |-> completion]

\* "(7D KS) done" for every game number and for a text without one,
\* "(KS 7D) pending" for the games two below another, "(7D)" without
\* indicator for a low game, a finalized text without a group for the
\* highest game
CorrMsgs ==
    { Msg(g, "text", <<D_7, K_S>>, FALSE, TRUE, None, FALSE) :
        g \in Games \cup {None} }
    \cup { Msg(g, "text", <<K_S, D_7>>, TRUE, FALSE, None, FALSE) :
             g \in {h \in Games : h + TRIGGER_OFFSET \in Games} }
    \cup { Msg(3, "text", <<D_7>>, FALSE, FALSE, None, FALSE),
           Msg(WINDOW + 5, "none", <<>>, FALSE, TRUE, None, FALSE) }

CorrConfig == \E chat \in SourceChats : CallbackConfig(chat, "source")

CorrMessage ==
    \E chat \in SourceChats, m \in CorrMsgs : HandleMessage(chat, m, None)

NextCorr == CorrConfig \/ CorrMessage

SpecCorr == Init /\ [][NextCorr]_vars

\* ------------------------------------------------------------------------
\* Specification of the record writes under a moving clock
\* ------------------------------------------------------------------------
ClockTexts ==
    { Text("text", <<D_7, K_S>>, FALSE, TRUE),
      Text("text", <<K_S, D_7>>, TRUE, FALSE),
      Text("text", <<D_7>>, FALSE, FALSE) }

ClockMsgs ==
    { Msg(g, x.content, x.cards, x.pending, x.completion, None, FALSE) :
        g \in {1, 3}, x \in ClockTexts }

ClockConfig == \E chat \in SourceChats : CallbackConfig(chat, "source")

ClockMessage ==
    \E chat \in SourceChats, m \in ClockMsgs : HandleMessage(chat, m, None)

ClockEdited ==
    \E chat \in SourceChats, m \in ClockMsgs :
        HandleEditedMessage(chat, m, None)

NextClock == ClockConfig \/ ClockMessage \/ ClockEdited \/ Tick

SpecClock == Init /\ [][NextClock]_vars

\* ------------------------------------------------------------------------
\* Properties of the correlator
\* ------------------------------------------------------------------------
HasK(m) == check_value_K_in_first_parentheses(m) # <<>>

HasSample(idata, g) ==
    \E i \in 1..Len(idata) : idata[i].numero_resultat = g

C3_SampleFromTrigger ==
    [][last'.collected /\ HasK(last'.msg) =>
         LET G == last'.msg.game
         IN IF (G - 2) \in DOMAIN sequential_history
            THEN ~HasSample(inter_data, G) =>
                   /\ Len(inter_data') = Len(inter_data) + 1
                   /\ SubSeq(inter_data', 1, Len(inter_data)) = inter_data
                   /\ inter_data'[Len(inter_data')].numero_resultat = G
                   /\ inter_data'[Len(inter_data')].numero_declencheur = G - 2
                   /\ inter_data'[Len(inter_data')].declencheur
                        = sequential_history[G - 2].cartes
            ELSE inter_data' = inter_data]_vars

\* the latest message appended the second sample of the log
C3_Witness ==
    /\ last.collected /\ last.appended /\ HasK(last.msg)
    /\ Len(inter_data) = 2
    /\ inter_data[2].numero_resultat = last.msg.game

CleanupRuns(sh, idata, m) ==
    /\ ContentTruthy(m)
    /\ ~(HasK(m) /\ (m.game - 2) \in DOMAIN sh /\ HasSample(idata, m.game))

C5_CorrelatorAlwaysRuns ==
    last.reached /\ last.msg.game # None => last.collected

\* ------------------------------------------------------------------------
\* Specification of the rule engine: two games, texts that meet the rules
\* ------------------------------------------------------------------------
H_10 == Card("10", "H2")

RuleText(game, cards, pending, completion, score) ==
    Msg(game, "text", cards, pending, completion, score, FALSE)

\* game 1: "(7D KS) done", "(KS 7D) #T45 done", the pending and the
\* unmarked "(7D KS 10H) #T45", "(7D KS 10H) #T45 done";
\* game 3: "(7D KS) done", "(7D 7D) #T44 done"
RuleMsgs ==
    { RuleText(1, <<D_7, K_S>>, FALSE, TRUE, None),
      RuleText(1, <<K_S, D_7>>, FALSE, TRUE, 45),
      RuleText(1, <<D_7, K_S, H_10>>, TRUE, TRUE, 45),
      RuleText(1, <<D_7, K_S, H_10>>, FALSE, FALSE, 45),
      RuleText(1, <<D_7, K_S, H_10>>, FALSE, TRUE, 45),
      RuleText(3, <<D_7, K_S>>, FALSE, TRUE, None),
      RuleText(3, <<D_7, D_7>>, FALSE, TRUE, 44) }

RuleConfigSource == \E chat \in SourceChats : CallbackConfig(chat, "source")

RuleConfigPrediction ==
    \E chat \in Chats \ SourceChats : CallbackConfig(chat, "prediction")

\* what the platform answers to a send: no result, or a message id
SendResults == {None} \cup MessageIds

RuleMessage ==
    \E chat \in SourceChats, m \in RuleMsgs, result \in MessageIds :
        HandleMessage(chat, m, result)

\* the message that is also delivered as an edit: "(7D KS 10H) #T45 done"
RuleEdits == {RuleText(1, <<D_7, K_S, H_10>>, FALSE, TRUE, 45)}

RuleEdited ==
    \E chat \in SourceChats, m \in RuleEdits, result \in MessageIds :
        HandleEditedMessage(chat, m, result)

NextRule ==
    \/ RuleConfigSource
    \/ RuleConfigPrediction
    \/ CallbackInterApply
    \/ CallbackInterDefault
    \/ RuleMessage
    \/ RuleEdited

SpecRule == Init /\ [][NextRule]_vars

\* ------------------------------------------------------------------------
\* Properties of the rule engine
\* ------------------------------------------------------------------------
Finalized(m) == ~m.pending /\ m.completion

LeadPair(m) == get_first_two_cards(m.cards)

\* the lead pair equals, in order, the cards of a rule of the active set
MatchesLearned(m) ==
    /\ is_inter_mode_active
    /\ smart_rules # <<>>
    /\ \E i \in 1..Len(smart_rules) : smart_rules[i].cards = LeadPair(m)

TenOfHearts(m) ==
    \E i \in 1..Len(m.cards) :
        m.cards[i].v = "10" /\ m.cards[i].s \in {"H", "H2"}

NewPredictionSent ==
    \E i \in 1..Len(last.sends) : last.sends[i].type = "new_prediction"

\* should_predict on the current state
Returned(tchan, m) ==
    should_predict(tchan, sequential_history, inter_data,
                   is_inter_mode_active, smart_rules, predictions, m, now)

C7_OnlyFinalized ==
    /\ last.reached /\ ~Finalized(last.msg) =>
          ~last.predict /\ ~NewPredictionSent
    /\ \A m \in RuleMsgs : \A p, c \in BOOLEAN :
          (p \/ ~c) =>
             ~Returned(target_channel_id,
                       [m EXCEPT !.pending = p, !.completion = c]).predict

\* a message that is pending, carries a completion indicator too, matches
\* an active learned rule, has a 10 of hearts and a score of 45 was
\* processed
C7_Witness ==
    /\ last.reached /\ last.collected
    /\ last.msg.pending /\ last.msg.completion
    /\ MatchesLearned(last.msg)
    /\ TenOfHearts(last.msg)
    /\ last.msg.score >= SCORE_THRESHOLD

\* C8 as claimed: without an output channel no prediction is returned
C8_NeedsOutputChannel ==
    last.reached /\ Falsy(prediction_channel_id) => ~last.predict

\* C8 amended: the binding should_predict asks for is the source channel's.
\* Without a source binding it returns no prediction and collects nothing;
\* with the source bound and the output unbound a matching finalized message
\* still returns a prediction and its record is stored, but nothing is sent.
C8_NeedsSourceChannel ==
    /\ \A m \in RuleMsgs :
          /\ ~Returned(None, m).predict
          /\ ~Returned(None, m).collected
    /\ last.reached /\ Falsy(prediction_channel_id) => last.sends = <<>>
    /\ last.reached /\ last.predict =>
          (last.msg.game + 2) \in DOMAIN predictions

\* with the output channel unbound a prediction was returned and recorded,
\* and nothing was sent
C8_Witness ==
    /\ last.reached /\ last.predict
    /\ Falsy(prediction_channel_id)
    /\ (last.msg.game + 2) \in DOMAIN predictions
    /\ last.sends = <<>>

\* C9: a prediction for a message that matches a learned rule comes from
\* the learned-rule branch, also when the message has a 10 of hearts in its
\* first group or a score of 45 or more
C9_LearnedFirst ==
    /\ last.reached /\ last.predict /\ MatchesLearned(last.msg) =>
          last.rule = "inter"
    /\ \A m \in RuleMsgs :
          MatchesLearned(m) /\ Returned(target_channel_id, m).predict =>
             Returned(target_channel_id, m).rule = "inter"

\* a message matching a learned rule, with a 10 of hearts and a score of
\* 45, was predicted from
C9_Witness ==
    /\ last.reached /\ last.predict /\ last.rule = "inter"
    /\ MatchesLearned(last.msg)
    /\ TenOfHearts(last.msg)
    /\ last.msg.score >= SCORE_THRESHOLD

\* C10: for a finalized message with a first group, the learned rule fires
\* exactly when the mode is active, the rule set is non-empty and the lead
\* pair equals the cards of a rule in the same order
C10_LearnedExactly ==
    /\ last.collected /\ Finalized(last.msg) /\ ContentTruthy(last.msg) =>
          (last.rule = "inter" <=> MatchesLearned(last.msg))
    /\ \A m \in RuleMsgs :
          Finalized(m) =>
             (Returned(target_channel_id, m).rule = "inter"
                <=> channel_configured(target_channel_id) /\ MatchesLearned(m))

Reverse2(pair) == <<pair[2], pair[1]>>

\* the learned rule did not fire for the reversed pair of an active rule
C10_Witness ==
    /\ last.collected /\ Finalized(last.msg)
    /\ is_inter_mode_active /\ smart_rules # <<>>
    /\ Len(LeadPair(last.msg)) = 2
    /\ \E i \in 1..Len(smart_rules) :
          smart_rules[i].cards = Reverse2(LeadPair(last.msg))
    /\ ~\E i \in 1..Len(smart_rules) :
          smart_rules[i].cards = LeadPair(last.msg)
    /\ last.rule # "inter"

\* the learned rule did not fire for a rule's own pair while the mode is off
C10_InactiveReached ==
    /\ last.collected /\ Finalized(last.msg)
    /\ ~is_inter_mode_active /\ smart_rules # <<>>
    /\ \E i \in 1..Len(smart_rules) :
          smart_rules[i].cards = LeadPair(last.msg)
    /\ last.rule # "inter"

\* ------------------------------------------------------------------------
\* Specification of the static rules: no learned rule is ever applied
\* ------------------------------------------------------------------------
\* game 0: "(10H 7D) #T45 done"; game 1: "(7D KS 10H) #T45 done" and
\* "#T45 done" without a group; game 3: "(7D KS) done" and
\* "(7D 7D) #T44 done"; game 9: "(7D) #T44 done"
StaticMsgs ==
    { RuleText(0, <<H_10, D_7>>, FALSE, TRUE, 45),
      RuleText(1, <<D_7, K_S, H_10>>, FALSE, TRUE, 45),
      Msg(1, "none", <<>>, FALSE, TRUE, 45, FALSE),
      RuleText(3, <<D_7, K_S>>, FALSE, TRUE, None),
      RuleText(3, <<D_7, D_7>>, FALSE, TRUE, 44),
      RuleText(9, <<D_7>>, FALSE, TRUE, 44) }

StaticConfigSource ==
    \E chat \in SourceChats : CallbackConfig(chat, "source")

StaticConfigPrediction ==
    \E chat \in Chats \ SourceChats : CallbackConfig(chat, "prediction")

StaticMessage ==
    \E chat \in SourceChats, m \in StaticMsgs, result \in SendResults :
        HandleMessage(chat, m, result)

NextStatic == StaticConfigSource \/ StaticConfigPrediction \/ StaticMessage

SpecStatic == Init /\ [][NextStatic]_vars

\* ------------------------------------------------------------------------
\* Properties of the static rules
\* ------------------------------------------------------------------------
\* the preconditions of a prediction, on the message just processed: both
\* channels bound, a game number extracted, no pending indicator, a
\* completion indicator
Preconditions ==
    /\ last.reached
    /\ ~Falsy(prediction_channel_id)
    /\ last.msg.game # None
    /\ Finalized(last.msg)

\* a new-prediction message keyed by target game T was sent
NewPredictionKeyed(T) ==
    \E i \in 1..Len(last.sends) :
        /\ last.sends[i].type = "new_prediction"
        /\ last.sends[i].predicted_game = T

\* a prediction of rank K for target game T fired: returned, recorded and
\* sent under the key T
FiredFor(T) ==
    /\ last.predict
    /\ T \in DOMAIN predictions
    /\ predictions[T].predicted = "K"
    /\ NewPredictionKeyed(T)

ScoreReached(m) == m.score # None /\ m.score >= SCORE_THRESHOLD

\* C11 as claimed: every message that meets the preconditions for game N
\* and has a 10 of hearts (either heart glyph, any position) in its first
\* group fires a prediction of rank K for target N+2, sent under the key N+2
C11_TenOfHeartsFires ==
    Preconditions /\ TenOfHearts(last.msg) =>
        FiredFor(last.msg.game + 2)

\* C12 as claimed: every message that meets the preconditions and has a
\* total score of 45 or more is predicted from with rank K, and the score
\* rule never decides for a score of 44 or less
C12_ScoreRuleFires ==
    /\ Preconditions /\ ScoreReached(last.msg) =>
          /\ last.predict
          /\ (last.msg.game + 2) \in DOMAIN predictions
          /\ predictions[last.msg.game + 2].predicted = "K"
    /\ last.reached /\ last.rule = "score" => ScoreReached(last.msg)

\* the most recent sample lies more than the gap threshold behind game g
GapExceeded(g) ==
    /\ inter_data # <<>>
    /\ g - MaxOutcome(inter_data) > GAP_THRESHOLD

\* C13 as claimed: a message that meets the preconditions and matches no
\* learned, 10-of-hearts or score rule is predicted from when the most
\* recent sample lies more than the gap threshold behind its game
C13_GapRuleFires ==
    /\ Preconditions
    /\ ~MatchesLearned(last.msg)
    /\ ~TenOfHearts(last.msg)
    /\ ~ScoreReached(last.msg)
    /\ GapExceeded(last.msg.game)
    => last.predict

\* no rule matches message m: no learned rule, no 10 of hearts, no score
\* of 45, and the gap rule's condition does not hold either
NoRuleMatches(m) ==
    /\ ~MatchesLearned(m)
    /\ ~TenOfHearts(m)
    /\ ~ScoreReached(m)
    /\ ~(inter_data # <<>> /\ gap_rule(inter_data, m.game))

\* C14: when no rule matches the message processed, no prediction is
\* returned, no new-prediction message is sent and no prediction record is
\* created or rewritten (only the record of the message's own game may be
\* resolved by the verifier)
C14_NoRuleNoPrediction ==
    [][last'.reached /\ last'.msg.game # None /\ (NoRuleMatches(last.msg))'
         => /\ ~last'.predict
            /\ ~NewPredictionSent'
            /\ DOMAIN predictions' = DOMAIN predictions
            /\ \A T \in DOMAIN predictions :
                  T # last'.msg.game => predictions'[T] = predictions[T]]_vars

\* a finalized message with a King and another card was processed with an
\* empty sample log and no rules, and nothing was predicted
C14_Witness ==
    /\ last.reached /\ last.collected /\ Finalized(last.msg)
    /\ HasK(last.msg) /\ Len(last.msg.cards) = 2
    /\ inter_data = <<>> /\ smart_rules = <<>> /\ ~is_inter_mode_active
    /\ ~last.predict /\ ~NewPredictionSent

DeliverMsgs ==
    { RuleText(1, <<H_10, D_7>>, FALSE, TRUE, None),
      RuleText(3, <<K_S, H_10>>, FALSE, TRUE, None),
      RuleText(3, <<D_7, D_7>>, FALSE, TRUE, None),
      RuleText(3, <<K_S, D_7>>, TRUE, FALSE, None) }

\* the answers of the platform to a send
DeliverResults == {None, NoIdentifier, 7, 8}

DeliverConfigSource ==
    \E chat \in SourceChats : CallbackConfig(chat, "source")

DeliverConfigPrediction ==
    \E chat \in Chats \ SourceChats : CallbackConfig(chat, "prediction")

DeliverMessage ==
    \E chat \in SourceChats, m \in DeliverMsgs, result \in DeliverResults :
        HandleMessage(chat, m, result)

NextDeliver ==
    DeliverConfigSource \/ DeliverConfigPrediction \/ DeliverMessage

SpecDeliver == Init /\ [][NextDeliver]_vars

\* ------------------------------------------------------------------------
\* Properties of the verifier and the delivery
\* ------------------------------------------------------------------------
IsEdit(s) == s.type = "edit_message"

\* the requests the latest step issued for a verification action
Edits == SelectSeq(last.sends, IsEdit)

\* this step processes a message for game T
ForGame(T) == last'.reached /\ last'.msg.game = T

Verifies(T) ==
    /\ ForGame(T) /\ last'.msg.completion
    /\ T \in DOMAIN predictions
    /\ predictions[T].status = "pending"

\* exactly one request was issued for the action: an edit of the message
\* with handle h, or a fresh message when h is None; never both
OneEditOrSend(h) ==
    /\ Len(Edits') = 1
    /\ IF h # None
       THEN Edits'[1].method = "editMessageText" /\ Edits'[1].message_id = h
       ELSE Edits'[1].method = "sendMessage"

\* the requests of an edit_message action on a game without a record
NoRecordRequests(T) ==
    process_prediction_action(predictions, prediction_channel_id,
                              "edit_message", T, None).sends

\* C19 as claimed, for the actions the verifier produces: a verification
\* action on T issues exactly one edit of the stored handle, or exactly one
\* fresh message when no handle is stored, and never both
C19_OneRequest ==
    [][\A T \in DOMAIN predictions :
          Verifies(T) => OneEditOrSend(predictions[T].message_id)]_vars

\* C19 amended: with the output channel bound, a verification action on T
\* issues exactly one edit of the stored handle, or exactly one fresh
\* message when no handle is stored or no record exists, and never both;
\* with no output channel bound it issues nothing
C19_OneRequestWhenBound ==
    [][/\ \A T \in DOMAIN predictions :
             Verifies(T) =>
                IF Falsy(prediction_channel_id)
                THEN last'.sends = <<>>
                ELSE OneEditOrSend(predictions[T].message_id)
       /\ \A T \in Games \ DOMAIN predictions :
             NoRecordRequests(T) =
                IF Falsy(prediction_channel_id)
                THEN <<>>
                ELSE <<Send("edit_message", T)>>]_vars

\* the latest step resolved the record of its game and edited the message
\* whose handle the record holds, while another record holds another handle
C19_Witness ==
    /\ last.reached /\ last.msg.game \in DOMAIN predictions
    /\ predictions[last.msg.game].status = "confirmed"
    /\ Len(Edits) = 1
    /\ Edits[1].method = "editMessageText"
    /\ Edits[1].message_id = predictions[last.msg.game].message_id
    /\ \E U \in DOMAIN predictions :
          /\ predictions[U].message_id # None
          /\ predictions[U].message_id # Edits[1].message_id

\* C20: when the new-prediction message for T is delivered (output channel
\* bound, a message id returned), the id is stored on the record of T and
\* the prediction map is saved; when it is not delivered or no id comes
\* back the record of T has no handle; in both cases every other record
\* keeps its handle and, unless this message resolved it, its other fields
C20_HandleStored ==
    [][last'.predict =>
         LET T == last'.msg.game + TARGET_OFFSET
             delivered == /\ ~Falsy(prediction_channel_id)
                          /\ last'.result \notin {None, NoIdentifier}
         IN /\ T \in DOMAIN predictions'
            /\ delivered =>
                  /\ predictions'[T].message_id = last'.result
                  /\ disk'.predictions = predictions'
            /\ ~delivered => predictions'[T].message_id = None
            /\ \A U \in DOMAIN predictions \ {T} :
                  /\ U \in DOMAIN predictions'
                  /\ predictions'[U].message_id = predictions[U].message_id
                  /\ U # last'.msg.game =>
                        predictions'[U] = predictions[U]]_vars

\* the latest prediction was delivered and its message id is on the record
\* of its target game, in memory and on disk, next to a record that holds
\* another id
C20_Witness ==
    /\ last.predict /\ last.result \notin {None, NoIdentifier}
    /\ (last.msg.game + TARGET_OFFSET) \in DOMAIN predictions
    /\ predictions[last.msg.game + TARGET_OFFSET].message_id = last.result
    /\ disk.predictions = predictions
    /\ \E U \in DOMAIN predictions :
          /\ predictions[U].message_id # None
          /\ predictions[U].message_id # last.result

\* ------------------------------------------------------------------------
\* Specification of the recomputation: construction from a saved sample
\* log, then the two rule-control callbacks
\* ------------------------------------------------------------------------
TopValues == {"7", "8", "9", "10"}

\* a trigger pair: one of four diamonds, then the 9 of spades
TopPair(v) == <<<<v, "D">>, <<"9", "S">>>>

\* the i-th sample of a saved log: outcome games two apart
TopSample(i, v) ==
    [numero_resultat |-> TRIGGER_OFFSET * i + 1,
     declencheur |-> TopPair(v),
     numero_declencheur |-> TRIGGER_OFFSET * i + 1 - TRIGGER_OFFSET,
     carte_k |-> <<"K", "S">>,
     date_resultat |-> 0]

\* the saved logs: every sequence of at most MaxLog samples over the pairs
TopLogs ==
    UNION { { [i \in 1..n |-> TopSample(i, f[i])] : f \in [1..n -> TopValues] } :
              n \in 0..MaxLog }

\* the saved rule sets: none, or the one computed when the log had one sample
TopRules(log) ==
    {<<>>} \cup (IF log = <<>> THEN {} ELSE {top_3(SubSeq(log, 1, 1))})

InitTop ==
    \E log \in TopLogs, status \in BOOLEAN :
        \E rules \in TopRules(log) : Construct(log, status, rules)

NextTop == CallbackInterApply \/ CallbackInterDefault

SpecTop == InitTop /\ [][NextTop]_vars

\* ------------------------------------------------------------------------
\* Properties of the recomputation
\* ------------------------------------------------------------------------
Keys == {inter_data[i].declencheur : i \in 1..Len(inter_data)}

Occurrences(k) ==
    Cardinality({i \in 1..Len(inter_data) : inter_data[i].declencheur = k})

FirstIndex(k) ==
    CHOOSE i \in 1..Len(inter_data) :
        /\ inter_data[i].declencheur = k
        /\ \A j \in 1..(i - 1) : inter_data[j].declencheur # k

\* pair a ranks before pair b: more occurrences, or as many and seen first
RankedBefore(a, b) ==
    \/ Occurrences(a) > Occurrences(b)
    \/ Occurrences(a) = Occurrences(b) /\ FirstIndex(a) < FirstIndex(b)

\* the latest step recomputed the rule set (explicitly, or at construction)
Recomputed == last.kind \in {"inter_apply", "init_analyzed"}

\* C15: after a recomputation the rule set is the first three (or all, if
\* fewer) of the distinct trigger pairs of the log ranked by occurrence
\* count, larger first, equal counts in first-seen order; every rule
\* carries the exact count of its pair.  The set is a function of the log
\* alone: nothing of the previous set survives.
C15_TopThree ==
    Recomputed =>
      /\ Len(smart_rules) =
            IF Cardinality(Keys) < 3 THEN Cardinality(Keys) ELSE 3
      /\ \A i \in 1..Len(smart_rules) :
            /\ smart_rules[i].cards \in Keys
            /\ smart_rules[i].count = Occurrences(smart_rules[i].cards)
      /\ \A i, j \in 1..Len(smart_rules) :
            i < j => RankedBefore(smart_rules[i].cards, smart_rules[j].cards)
      /\ \A k \in Keys :
            (\A i \in 1..Len(smart_rules) : smart_rules[i].cards # k) =>
               \A i \in 1..Len(smart_rules) :
                  RankedBefore(smart_rules[i].cards, k)

\* an explicit recomputation over four distinct pairs: the pair seen twice,
\* not the first seen, leads; two pairs with equal counts follow; the
\* fourth is left out
C15_Witness ==
    /\ last.kind = "inter_apply"
    /\ Cardinality(Keys) = 4
    /\ Len(smart_rules) = 3
    /\ smart_rules[1].count = 2
    /\ FirstIndex(smart_rules[1].cards) > 1
    /\ smart_rules[2].count = smart_rules[3].count

Persisted ==
    /\ disk.smart_rules = smart_rules
    /\ disk.inter_mode_status = is_inter_mode_active

str_of(k) == 0 - (k + 2)

int_of(s) == 0 - (s + 2)

IsStr(k) == k < None

\* json.load(json.dump(d)) of a dict: every key comes back as a string; a
\* string key and the integer key of the same digits are one key of the
\* file, which holds the value of the integer key, inserted last
json_object(d) ==
    LET key(k) == IF IsStr(k) THEN k ELSE str_of(k)
    IN [s \in {key(k) : k \in DOMAIN d} |->
           IF int_of(s) \in DOMAIN d THEN d[int_of(s)] ELSE d[s]]

\* the loaded keys left as the strings they are
load_sequential_history_str(d) == json_object(d)

\* _load_data('sequential_history.json'): {int(k): v for k, v in
\* data.items()}
load_sequential_history(d) ==
    LET data == json_object(d)
    IN [k \in {int_of(s) : s \in DOMAIN data} |-> data[str_of(k)]]

\* the keys of the file turned back into integers
load_predictions_int(d) == load_sequential_history(d)

\* _load_data('predictions.json'): "return data", the keys stay strings
load_predictions(d) == json_object(d)

\* _load_data('inter_mode_status.json', is_scalar=True) of the object
\* {'active': flag} that _save_data wrote
load_inter_mode_status(flag) == [active |-> flag].active

\* _load_data of a JSON list of objects with string keys and string,
\* integer or list values (inter_data.json, smart_rules.json)
load_list(l) == l

\* __init__ over the files as they are: the loads, then the analysis "if
\* self.inter_data and not self.is_inter_mode_active"
Restart ==
    LET idata == load_list(disk.inter_data)
        status == load_inter_mode_status(disk.inter_mode_status)
        rules == load_list(disk.smart_rules)
        analyzed == idata # <<>> /\ ~status
        r == IF analyzed
             THEN analyze_and_set_smart_rules(idata, status, TRUE)
             ELSE [smart_rules |-> rules, is_inter_mode_active |-> status]
    IN /\ predictions' = load_predictions(disk.predictions)
       /\ target_channel_id' = disk.target_channel_id
       /\ prediction_channel_id' = disk.prediction_channel_id
       /\ sequential_history' =
              load_sequential_history(disk.sequential_history)
       /\ inter_data' = idata
       /\ is_inter_mode_active' = r.is_inter_mode_active
       /\ smart_rules' = r.smart_rules
       /\ disk' = IF analyzed
                  THEN [disk EXCEPT
                          !.inter_mode_status = r.is_inter_mode_active,
                          !.smart_rules = r.smart_rules]
                  ELSE disk
       /\ last' = [NoLast EXCEPT !.kind = "restart"]
       /\ UNCHANGED <<now, inflight>>

\* ------------------------------------------------------------------------
\* Specification of the restart: a prediction for game 3, the message that
\* resolves it, and restarts of the process in between
\* ------------------------------------------------------------------------
\* game 1: "(10H 7D) done"; game 3: "(KS 10H) done"
RestartMsgs ==
    { RuleText(1, <<H_10, D_7>>, FALSE, TRUE, None),
      RuleText(3, <<K_S, H_10>>, FALSE, TRUE, None) }

RestartConfigSource ==
    \E chat \in SourceChats : CallbackConfig(chat, "source")

RestartConfigPrediction ==
    \E chat \in Chats \ SourceChats : CallbackConfig(chat, "prediction")

RestartMessage ==
    \E chat \in SourceChats, m \in RestartMsgs, result \in MessageIds :
        HandleMessage(chat, m, result)

NextRestart ==
    \/ RestartConfigSource
    \/ RestartConfigPrediction
    \/ RestartMessage
    \/ Restart

SpecRestart == Init /\ [][NextRestart]_vars

\* ------------------------------------------------------------------------
\* Specification of the loads: the construction over files that are
\* missing, not JSON, or hold a JSON document of some kind
\* ------------------------------------------------------------------------
FileNames ==
    {"predictions.json", "processed.json", "last_prediction_time.json",
     "channels_config.json", "sequential_history.json", "inter_data.json",
     "inter_mode_status.json", "smart_rules.json"}

\* what a file holds: nothing (missing), text that is not JSON (invalid),
\* or a JSON document: the object {"a": 1}, the list [1], the number 5,
\* the string "x"
FileKinds == {"missing", "invalid", "object", "list", "number", "string"}

\* a Python value by its type and whether it is the empty / false / zero
\* value of that type
Py(type, empty) == [type |-> type, empty |-> empty]

\* json.load of a document
json_load(file) ==
    IF file = "object" THEN Py("dict", FALSE)
    ELSE IF file = "list" THEN Py("list", FALSE)
    ELSE IF file = "number" THEN Py("int", FALSE)
    ELSE Py("str", FALSE)

is_set(filename) == filename = "processed.json"

is_scalar(filename) ==
    filename \in {"last_prediction_time.json", "inter_mode_status.json"}

\* _load_data: the branch "except (FileNotFoundError, JSONDecodeError)"
load_default(filename) ==
    IF is_set(filename) THEN Py("set", TRUE)
    ELSE IF filename = "inter_mode_status.json" THEN Py("bool", TRUE)
    ELSE IF is_scalar(filename) THEN Py("float", TRUE)
    ELSE IF filename \in {"inter_data.json", "smart_rules.json"}
    THEN Py("list", TRUE)
    ELSE Py("dict", TRUE)

\* _load_data: the branch "except Exception"
load_critical(filename) ==
    IF is_set(filename) THEN Py("set", TRUE)
    ELSE IF filename = "inter_mode_status.json" THEN Py("bool", TRUE)
    ELSE IF filename = "inter_data.json" THEN Py("list", TRUE)
    ELSE Py("dict", TRUE)

\* _load_data(filename, is_set, is_scalar) over what the file holds
load_data(filename, file) ==
    IF file \in {"missing", "invalid"} THEN load_default(filename)
    ELSE IF is_set(filename)
    THEN \* set(data): the keys of a dict, the characters of a string;
         \* TypeError for a number
         IF file = "number" THEN load_critical(filename)
         ELSE Py("set", FALSE)
    ELSE IF filename = "inter_mode_status.json"
    THEN \* data.get('active', False): AttributeError unless a dict; the
         \* object {"a": 1} has no key 'active'
         IF file = "object" THEN Py("bool", TRUE)
         ELSE load_critical(filename)
    ELSE IF is_scalar(filename)
    THEN \* int(data) if isinstance(data, (int, float)) else data
         json_load(file)
    ELSE IF filename = "sequential_history.json"
    THEN \* {int(k): v ...}: AttributeError unless a dict, ValueError for
         \* the key "a"
         load_critical(filename)
    ELSE json_load(file)

\* __init__ raises: self.config_data.get on a value that is no dict (line
\* 32), or the analysis of line 47 over loaded data that holds no samples
\* (data['declencheur'] on a key, an element or a character, or iteration
\* over a number)
construct_raises(loaded) ==
    \/ loaded["channels_config.json"].type # "dict"
    \/ /\ ~loaded["inter_data.json"].empty
       /\ loaded["inter_mode_status.json"].empty

\* the files at the start of the process: at most two of them exist
FileStates ==
    {files \in [FileNames -> FileKinds] :
        Cardinality({f \in FileNames : files[f] # "missing"}) <= 2}

\* the field a load sets: the default of the model when the default was
\* loaded, otherwise the loaded value by its type
Field(value, default) == IF value.empty THEN default ELSE value

\* CardPredictor(): __init__ over the files, once, at the start of the
\* process
LoadFiles ==
    \E files \in FileStates :
       LET loaded == [f \in FileNames |-> load_data(f, files[f])]
           raises == construct_raises(loaded)
       IN /\ last.kind = "init"
          /\ last' = [NoLast EXCEPT !.kind = "construct"] @@
                     [files |-> files, loaded |-> loaded, raises |-> raises]
          /\ IF raises
             THEN UNCHANGED <<predictions, sequential_history, inter_data,
                              is_inter_mode_active, smart_rules>>
             ELSE /\ predictions' =
                        Field(loaded["predictions.json"], EmptyDict)
                  /\ sequential_history' =
                        Field(loaded["sequential_history.json"], EmptyDict)
                  /\ inter_data' = Field(loaded["inter_data.json"], <<>>)
                  /\ is_inter_mode_active' = FALSE
                  /\ smart_rules' = Field(loaded["smart_rules.json"], <<>>)
          /\ UNCHANGED <<target_channel_id, prediction_channel_id, disk,
                         now, inflight>>

SpecLoad == Init /\ [][LoadFiles]_vars

\* ------------------------------------------------------------------------
\* Specification of the saves: bindings, a prediction, its resolution and
\* the rule controls, each while the file system accepts or refuses writes
\* ------------------------------------------------------------------------
SaveConfigSource ==
    \E chat \in SourceChats, writable \in BOOLEAN :
        CallbackConfigW(chat, "source", writable)

SaveConfigPrediction ==
    \E chat \in Chats \ SourceChats, writable \in BOOLEAN :
        CallbackConfigW(chat, "prediction", writable)

SaveMessage ==
    \E chat \in SourceChats, m \in RestartMsgs, result \in MessageIds,
       writable \in BOOLEAN :
        HandleMessageW(chat, m, result, writable)

SaveInterApply == \E writable \in BOOLEAN : CallbackInterApplyW(writable)

SaveInterDefault == \E writable \in BOOLEAN : CallbackInterDefaultW(writable)

NextSave ==
    \/ SaveConfigSource
    \/ SaveConfigPrediction
    \/ SaveMessage
    \/ SaveInterApply
    \/ SaveInterDefault

SpecSave == Init /\ [][NextSave]_vars

\* ------------------------------------------------------------------------
\* Specification of the update boundary: updates that raise (malformed
\* ones, a delivery answered without a message id) among well-formed ones
\* ------------------------------------------------------------------------
\* the answers of the platform to a send: a message id, or an "ok" answer
\* without one
BoundaryResults == {NoIdentifier} \cup MessageIds

BoundaryConfigSource ==
    \E chat \in SourceChats : CallbackConfig(chat, "source")

BoundaryConfigPrediction ==
    \E chat \in Chats \ SourceChats : CallbackConfig(chat, "prediction")

BoundaryMessage ==
    \E chat \in SourceChats, m \in RestartMsgs, result \in BoundaryResults :
        HandleMessage(chat, m, result)

NextBoundary ==
    \/ BoundaryConfigSource
    \/ BoundaryConfigPrediction
    \/ BoundaryMessage
    \/ MalformedUpdate

SpecBoundary == Init /\ [][NextBoundary]_vars

\* ------------------------------------------------------------------------
\* Specification of the bindings: every operator action and every kind of
\* update, in both chats
\* ------------------------------------------------------------------------
\* set_channel_id called with the roles of the two buttons and with another
\* role
BindRoles == {"source", "prediction", "other"}

BindSetChannel ==
    \E chat \in Chats, channel_type \in BindRoles :
        CallbackConfig(chat, channel_type)

BindCancel == \E chat \in Chats : CallbackCancel(chat)

BindMyChatMember == \E chat \in Chats : MyChatMember(chat)

BindMessage ==
    \E chat \in Chats, m \in RestartMsgs, result \in MessageIds :
        HandleMessage(chat, m, result)

BindEdited ==
    \E chat \in Chats, m \in RestartMsgs, result \in MessageIds :
        HandleEditedMessage(chat, m, result)

NextBind ==
    \/ BindSetChannel
    \/ BindCancel
    \/ BindMyChatMember
    \/ BindMessage
    \/ BindEdited
    \/ CallbackInterApply
    \/ CallbackInterDefault

SpecBind == Init /\ [][NextBind]_vars

\* ------------------------------------------------------------------------
\* Specification of the server threads: app.run() serves each request in
\* a thread of its own, so the handling of an update can be suspended
\* between two statements while another thread handles another update.
\* One suspension point is modelled: between the duplicate check of
\* collect_inter_data (lines 226-229) and what follows it.
\* ------------------------------------------------------------------------
\* the handling of m reaches the duplicate check of collect_inter_data
ReachesCheck(chat, m) ==
    /\ ~m.slash
    /\ chat = target_channel_id
    /\ channel_configured(target_channel_id)
    /\ ~Falsy(extract_game_number(m))
    /\ ContentTruthy(m)
    /\ check_value_K_in_first_parentheses(m) # <<>>
    /\ extract_game_number(m) - TRIGGER_OFFSET \in
          DOMAIN RecordGame(sequential_history, extract_game_number(m),
                            get_first_two_cards(m.cards), now)

\* a thread handles an update up to the duplicate check: the verification
\* and its delivery, the preconditions of should_predict, the write of
\* the GameRecord, and the check, whose outcome is the local is_duplicate
ThreadCheck(t, chat, m, a1) ==
    /\ inflight[t].pc = "idle"
    /\ ReachesCheck(chat, m)
    /\ predictions' = a1.preds
    /\ disk' = IF a1.saved
               THEN save_all_data(disk, a1.preds, inter_data,
                        sequential_history, is_inter_mode_active,
                        smart_rules)
               ELSE disk
    /\ sequential_history' =
           RecordGame(sequential_history, extract_game_number(m),
                      get_first_two_cards(m.cards), now)
    /\ inflight' = [inflight EXCEPT ![t] =
                       [pc |-> "checked", chat |-> chat, msg |-> m,
                        dup |-> is_duplicate(inter_data,
                                             extract_game_number(m))]]
    /\ last' = [NoLast EXCEPT !.kind = "checked", !.chat = chat,
                              !.msg = m, !.sends = a1.sends]
    /\ UNCHANGED <<target_channel_id, prediction_channel_id, inter_data,
                   is_inter_mode_active, smart_rules, now>>

\* the thread goes on from the check to the end of the handler
ThreadFinish(t, result) ==
    /\ inflight[t].pc = "checked"
    /\ ChannelMessageDecided("message", inflight[t].chat, inflight[t].msg,
           result, TRUE,
           [preds |-> predictions, sends |-> <<>>, saved |-> FALSE],
           decide_after_collect(inflight[t].msg, is_inter_mode_active,
               smart_rules, predictions,
               extract_game_number(inflight[t].msg),
               collect_tail(sequential_history, inter_data,
                   extract_game_number(inflight[t].msg), inflight[t].msg,
                   now, inflight[t].dup)))
    /\ inflight' = [inflight EXCEPT ![t] = Idle]

\* a thread handles, without suspension, an update that does not reach the
\* check
ThreadWhole(t, chat, m, result) ==
    /\ inflight[t].pc = "idle"
    /\ ~ReachesCheck(chat, m)
    /\ HandleMessage(chat, m, result)

\* game 1: "(7D KS) done"; game 3: "(KS 7D) done"
ThreadMsgs ==
    { RuleText(1, <<D_7, K_S>>, FALSE, TRUE, None),
      RuleText(3, <<K_S, D_7>>, FALSE, TRUE, None) }

ThreadsConfigSource ==
    \E chat \in SourceChats : CallbackConfig(chat, "source")

ThreadsConfigPrediction ==
    \E chat \in Chats \ SourceChats : CallbackConfig(chat, "prediction")

ThreadsCheck ==
    \E t \in Threads, chat \in SourceChats, m \in ThreadMsgs :
        ThreadCheck(t, chat, m,
            verification_step(verify_prediction_common(predictions, m),
                              prediction_channel_id))

ThreadsFinish ==
    \E t \in Threads, result \in MessageIds : ThreadFinish(t, result)

ThreadsWhole ==
    \E t \in Threads, chat \in SourceChats, m \in ThreadMsgs,
       result \in MessageIds :
        ThreadWhole(t, chat, m, result)

NextThreads ==
    \/ ThreadsConfigSource
    \/ ThreadsConfigPrediction
    \/ ThreadsCheck
    \/ ThreadsFinish
    \/ ThreadsWhole

SpecThreads == Init /\ [][NextThreads]_vars

\* ------------------------------------------------------------------------
\* Specification of the sample log under messages, edits, recomputations
\* and rule controls
\* ------------------------------------------------------------------------
\* game 1: "(7D KS) done"; game 3: "(KS 7D) done"; game 5: "(KS 10H) done"
LogMsgs ==
    { RuleText(1, <<D_7, K_S>>, FALSE, TRUE, None),
      RuleText(3, <<K_S, D_7>>, FALSE, TRUE, None),
      RuleText(5, <<K_S, H_10>>, FALSE, TRUE, None) }

LogConfigSource == \E chat \in SourceChats : CallbackConfig(chat, "source")

LogMessage ==
    \E chat \in SourceChats, m \in LogMsgs : HandleMessage(chat, m, None)

LogEdited ==
    \E chat \in SourceChats, m \in LogMsgs :
        HandleEditedMessage(chat, m, None)

NextLog ==
    \/ LogConfigSource
    \/ LogMessage
    \/ LogEdited
    \/ CallbackInterApply
    \/ CallbackInterDefault

SpecLog == Init /\ [][NextLog]_vars

\* ------------------------------------------------------------------------
\* Specification of the learned mode across restarts: messages that form a
\* sample, the two rule controls and the restart of the process
\* ------------------------------------------------------------------------
DurableConfigSource ==
    \E chat \in SourceChats : CallbackConfig(chat, "source")

DurableMessage ==
    \E chat \in SourceChats, m \in LogMsgs : HandleMessage(chat, m, None)

NextDurable ==
    \/ DurableConfigSource
    \/ DurableMessage
    \/ CallbackInterApply
    \/ CallbackInterDefault
    \/ Restart

SpecDurable == Init /\ [][NextDurable]_vars

\* ------------------------------------------------------------------------
\* Specification of restarts after failed writes: the handlers with writes
\* that succeed or fail, and the restart of the process
\* ------------------------------------------------------------------------
NextStale ==
    \/ SaveConfigSource
    \/ SaveMessage
    \/ SaveInterApply
    \/ SaveInterDefault
    \/ Restart

SpecStale == Init /\ [][NextStale]_vars

\* ------------------------------------------------------------------------
\* Specification of the source filter: messages, commands and edits of
\* every chat, with the source channel bound or not
\* ------------------------------------------------------------------------
\* the two messages of the restart specification and a command that
\* carries the text of the second: "/#N3. (KS 10H) done"
SourceMsgs ==
    RestartMsgs \cup {Msg(3, "text", <<K_S, H_10>>, FALSE, TRUE, None, TRUE)}

SourceConfigSource ==
    \E chat \in SourceChats : CallbackConfig(chat, "source")

SourceConfigPrediction ==
    \E chat \in Chats \ SourceChats : CallbackConfig(chat, "prediction")

SourceMessage ==
    \E chat \in Chats, m \in SourceMsgs, result \in MessageIds :
        HandleMessage(chat, m, result)

SourceEdited ==
    \E chat \in Chats, m \in SourceMsgs, result \in MessageIds :
        HandleEditedMessage(chat, m, result)

NextSource ==
    \/ SourceConfigSource
    \/ SourceConfigPrediction
    \/ SourceMessage
    \/ SourceEdited

SpecSource == Init /\ [][NextSource]_vars

\* ------------------------------------------------------------------------
\* Persistence properties
\* ------------------------------------------------------------------------
\* C21: write-through: a step leaves on disk the value of every aggregate
\* it changed in memory (GameRecord window, sample log, prediction map,
\* rule set, mode flag, channel bindings), also when the message appended
\* no sample and fired no prediction
C21_WriteThrough ==
    [][/\ sequential_history' # sequential_history =>
              disk'.sequential_history = sequential_history'
       /\ inter_data' # inter_data => disk'.inter_data = inter_data'
       /\ predictions' # predictions => disk'.predictions = predictions'
       /\ smart_rules' # smart_rules => disk'.smart_rules = smart_rules'
       /\ is_inter_mode_active' # is_inter_mode_active =>
              disk'.inter_mode_status = is_inter_mode_active'
       /\ target_channel_id' # target_channel_id =>
              disk'.target_channel_id = target_channel_id'
       /\ prediction_channel_id' # prediction_channel_id =>
              disk'.prediction_channel_id = prediction_channel_id']_vars

\* C22: round trip: each aggregate of the state, saved and loaded back, is
\* the value that was saved, and a game number is a key of the loaded
\* prediction map exactly when it is a key of the saved one
C22_RoundTrip ==
    /\ load_predictions(predictions) = predictions
    /\ \A T \in Games :
          T \in DOMAIN load_predictions(predictions)
              <=> T \in DOMAIN predictions
    /\ load_sequential_history(sequential_history) = sequential_history
    /\ load_list(inter_data) = inter_data
    /\ load_list(smart_rules) = smart_rules
    /\ load_inter_mode_status(is_inter_mode_active) = is_inter_mode_active

\* the kind of document _save_data writes into the file
ExpectedKind(filename) ==
    IF filename \in {"processed.json", "inter_data.json", "smart_rules.json"}
    THEN "list"
    ELSE IF filename = "last_prediction_time.json" THEN "number"
    ELSE "object"

\* the default of each aggregate: an empty map for the predictions, the
\* GameRecord window and the channel bindings, an empty list for the
\* samples and the rules, an empty set for the processed messages, false
\* for the mode flag, zero for the cooldown timestamp
DocumentedDefault(filename) ==
    IF filename \in {"predictions.json", "sequential_history.json",
                     "channels_config.json"}
    THEN Py("dict", TRUE)
    ELSE IF filename \in {"inter_data.json", "smart_rules.json"}
    THEN Py("list", TRUE)
    ELSE IF filename = "processed.json" THEN Py("set", TRUE)
    ELSE IF filename = "inter_mode_status.json" THEN Py("bool", TRUE)
    ELSE Py("float", TRUE)

\* C23: the construction does not raise, and every aggregate whose file is
\* missing, is not JSON or holds a document of another kind than the one
\* saved takes its default
C23_LoadDefaults ==
    last.kind = "construct" =>
       /\ ~last.raises
       /\ \A f \in FileNames :
             last.files[f] # ExpectedKind(f) =>
                 last.loaded[f] = DocumentedDefault(f)

\* the five aggregates of _save_all_data are on disk as they are in memory
AllOnDisk ==
    /\ disk.predictions = predictions
    /\ disk.inter_data = inter_data
    /\ disk.sequential_history = sequential_history
    /\ disk.inter_mode_status = is_inter_mode_active
    /\ disk.smart_rules = smart_rules

\* C24: a step whose saves fail ends as the handler ends: the window, the
\* log, the predictions, the requests sent, the bindings, the rules and
\* the flag are the ones the whole handler computes from the state in
\* memory before it (nothing raised by a save cut it short, and no value of
\* the files replaced one in memory); a step that ends with a successful
\* save leaves on disk the values in memory after it
C24_SaveFailureSwallowed ==
    [][/\ (~last'.writable /\ last'.reached) =>
              LET m == last'.msg
                  v == verify_prediction_common(predictions, m)
                  a1 == IF v.action
                        THEN process_prediction_action(v.preds,
                                 prediction_channel_id, "edit_message",
                                 v.predicted_game, None)
                        ELSE [preds |-> v.preds, sends |-> <<>>]
                  sp == should_predict(target_channel_id,
                            sequential_history, inter_data,
                            is_inter_mode_active, smart_rules, a1.preds, m,
                            now)
                  a2 == IF sp.predict
                        THEN process_prediction_action(
                                 make_prediction(a1.preds, sp.game, "K"),
                                 prediction_channel_id, "new_prediction",
                                 sp.game + TARGET_OFFSET, last'.result)
                        ELSE [preds |-> a1.preds, sends |-> <<>>]
              IN /\ sequential_history' = sp.sh
                 /\ inter_data' = sp.idata
                 /\ predictions' = a2.preds
                 /\ last'.sends = a1.sends \o a2.sends
                 /\ last'.predict = sp.predict
       /\ (~last'.writable /\ last'.kind \in {"source", "prediction"}) =>
              LET r == set_channel_id(target_channel_id,
                           prediction_channel_id, last'.chat, last'.kind)
              IN /\ target_channel_id' = r.target
                 /\ prediction_channel_id' = r.prediction
       /\ (~last'.writable /\ last'.kind = "inter_apply") =>
              LET r == analyze_and_set_smart_rules(inter_data,
                           is_inter_mode_active, FALSE)
              IN /\ smart_rules' = r.smart_rules
                 /\ is_inter_mode_active' = r.is_inter_mode_active
       /\ (~last'.writable /\ last'.kind = "inter_default") =>
              ~is_inter_mode_active'
       /\ (last'.flushed /\ last'.reached) => AllOnDisk'
       /\ (last'.flushed /\ last'.kind \in {"source", "prediction"}) =>
              /\ disk'.target_channel_id = target_channel_id'
              /\ disk'.prediction_channel_id = prediction_channel_id'
       /\ (last'.writable /\ last'.kind = "inter_apply") =>
              /\ disk'.inter_mode_status = is_inter_mode_active'
              /\ disk'.smart_rules = smart_rules'
       /\ (last'.writable /\ last'.kind = "inter_default") =>
              disk'.inter_mode_status = is_inter_mode_active']_vars

\* the saves of a message failed: its sample was appended, its prediction
\* was made and sent, and the files still hold no sample
C24_Witness ==
    /\ ~last.writable /\ last.reached
    /\ last.appended /\ last.predict
    /\ last.sends # <<>>
    /\ inter_data # <<>> /\ disk.inter_data = <<>>

\* a save that succeeded after saves had failed: the sample appended by an
\* earlier message, absent from the files until now, is on disk
C24_SavedLater ==
    /\ last.flushed /\ last.reached /\ ~last.appended
    /\ inter_data # <<>> /\ disk.inter_data = inter_data

\* ------------------------------------------------------------------------
\* Boundary properties
\* ------------------------------------------------------------------------
\* C25: an update whose handling raises (a malformed update, or one whose
\* processing raises part-way) leaves the predictor as it was, so that the
\* updates after it are processed as if it had not been received
C25_FailingUpdateIsolated ==
    [][last'.raised =>
          UNCHANGED <<target_channel_id, prediction_channel_id,
                      sequential_history, inter_data, is_inter_mode_active,
                      smart_rules, predictions>>]_vars

\* C26: a source confirmation sets the source binding to its chat and
\* leaves the output binding, an output confirmation sets the output
\* binding and leaves the source binding, and both files hold the bindings
\* afterwards; every other step (message, edit, my_chat_member, cancel,
\* rule control) leaves both bindings as they were; set_channel_id with
\* another role fails and changes neither the bindings nor the file
C26_BindingsFrame ==
    [][/\ last'.kind = "source" =>
              /\ target_channel_id' = last'.chat
              /\ prediction_channel_id' = prediction_channel_id
       /\ last'.kind = "prediction" =>
              /\ prediction_channel_id' = last'.chat
              /\ target_channel_id' = target_channel_id
       /\ last'.kind \in {"source", "prediction"} =>
              /\ disk'.target_channel_id = target_channel_id'
              /\ disk'.prediction_channel_id = prediction_channel_id'
       /\ last'.kind \notin {"source", "prediction"} =>
              UNCHANGED <<target_channel_id, prediction_channel_id>>
       /\ last'.kind = "other" =>
              /\ ~set_channel_id(target_channel_id, prediction_channel_id,
                                 last'.chat, "other").ok
              /\ disk'.target_channel_id = disk.target_channel_id
              /\ disk'.prediction_channel_id = disk.prediction_channel_id
      ]_vars

\* a source confirmation in one chat while the other chat is the output:
\* the output binding was kept and both are on disk
C26_Witness ==
    /\ last.kind = "source"
    /\ target_channel_id = last.chat
    /\ prediction_channel_id \in Chats \ {last.chat}
    /\ disk.target_channel_id = target_channel_id
    /\ disk.prediction_channel_id = prediction_channel_id

\* C27: updates are handled one at a time: no state has two updates in the
\* middle of their handling, and no state has two threads that both passed
\* the duplicate check of one outcome game before either appended
C27_OneUpdateAtATime ==
    /\ Cardinality({t \in Threads : inflight[t].pc # "idle"}) <= 1
    /\ \A t1, t2 \in Threads :
          (/\ t1 # t2
           /\ inflight[t1].pc = "checked" /\ inflight[t2].pc = "checked"
           /\ extract_game_number(inflight[t1].msg)
                  = extract_game_number(inflight[t2].msg))
              => inflight[t1].dup \/ inflight[t2].dup

\* what the interleaving leads to: two samples of one outcome game
C27_DuplicateSamples ==
    \E i, j \in DOMAIN inter_data :
        i # j /\ inter_data[i].numero_resultat = inter_data[j].numero_resultat

\* ------------------------------------------------------------------------
\* Cooldown properties
\* ------------------------------------------------------------------------
\* C28: a message that follows a prediction made at time t, for another
\* game, fires a prediction only at a time later than t + 30; and
\* can_make_prediction is true exactly when no time is recorded or the
\* current time is later than the recorded time plus 30
C28_CooldownGates ==
    [][/\ (/\ last.predict /\ last'.predict
           /\ last.msg.game # last'.msg.game)
              => now' > now + prediction_cooldown
       /\ \A recorded \in {None, 0, 1},
             t \in {1, prediction_cooldown + 1, prediction_cooldown + 2} :
              can_make_prediction(recorded, t)
                  <=> (\/ recorded \in {None, 0}
                       \/ t > recorded + prediction_cooldown)]_vars

\* ------------------------------------------------------------------------
\* Sample log properties
\* ------------------------------------------------------------------------
\* C29: the sample log is append-only: a step of a message, an edit, a
\* recomputation or a rule control leaves the log as it was or adds one
\* sample at its end; the samples it held stay, in order and unmodified
C29_AppendOnly ==
    [][\/ inter_data' = inter_data
       \/ /\ Len(inter_data') = Len(inter_data) + 1
          /\ SubSeq(inter_data', 1, Len(inter_data)) = inter_data]_vars

\* a sample was appended to a log that held samples already
C29_Witness ==
    /\ last.appended
    /\ Len(inter_data) >= 2

\* ------------------------------------------------------------------------
\* Eviction properties
\* ------------------------------------------------------------------------
\* C30: after collect_inter_data processed a message of game g, with or
\* without a first group, forming a sample or not, duplicate outcome or
\* not, no record of a game below g - 50 remains and every record of a game
\* from g - 50 on that was held is still held
C30_EvictionOnEveryPass ==
    [][last'.collected
         => /\ \A K \in DOMAIN sequential_history' :
                  K >= last'.msg.game - WINDOW
            /\ \A K \in DOMAIN sequential_history :
                  K >= last'.msg.game - WINDOW
                      => K \in DOMAIN sequential_history']_vars

\* the part that holds on every pass: no record within the window is lost
C30_WindowKept ==
    [][last'.collected
         => \A K \in DOMAIN sequential_history :
               K >= last'.msg.game - WINDOW
                   => K \in DOMAIN sequential_history']_vars

\* a duplicate outcome left a record below its window in place
C30_DuplicateSkipsCleanup ==
    /\ last.collected /\ ~last.appended
    /\ HasK(last.msg) /\ HasSample(inter_data, last.msg.game)
    /\ \E K \in DOMAIN sequential_history : K < last.msg.game - WINDOW

\* ------------------------------------------------------------------------
\* Order of the steps of one message
\* ------------------------------------------------------------------------
\* C31: the record of the message is written before the verification and
\* the flush it triggers: when the verification of a message flushed the
\* state, the correlator ran and nothing was flushed after it, the flushed
\* sequential_history holds the record of the message's game
C31_CorrelateVerifyDecide ==
    [][(/\ last'.reached /\ last'.collected /\ ContentTruthy(last'.msg)
        /\ verification_step(
               verify_prediction_common(predictions, last'.msg),
               prediction_channel_id).saved
        /\ ~last'.appended /\ ~last'.flushed /\ last'.writable)
          => last'.msg.game \in DOMAIN disk'.sequential_history]_vars

\* ------------------------------------------------------------------------
\* Durability of the deactivation
\* ------------------------------------------------------------------------
\* C32: after the return to the static rules the learned mode stays
\* inactive until the rules are applied again: the step that follows the
\* deactivation, a restart included, leaves the mode inactive unless it is
\* the application of the learned rules
C32_DeactivationDurable ==
    [][(last.kind = "inter_default" /\ last'.kind # "inter_apply")
          => ~is_inter_mode_active']_vars

\* the restart that follows a deactivation finds samples on disk
C32_RestartAfterDefault ==
    /\ last.kind = "restart"
    /\ inter_data # <<>>
    /\ is_inter_mode_active
    /\ smart_rules # <<>>

\* ------------------------------------------------------------------------
\* Well-formedness of the learned rules
\* ------------------------------------------------------------------------
RECURSIVE SumCounts(_)
\* the sum of the counts of a rule set
SumCounts(rules) ==
    IF rules = <<>> THEN 0
    ELSE rules[1].count + SumCounts(Tail(rules))

\* C33: in every reachable state the rule set holds at most 3 rules, of
\* pairwise distinct trigger pairs of exactly two cards, with counts >= 1
\* in non-increasing order whose sum is at most the number of samples in
\* the log; every GameRecord and every sample's trigger holds two cards
C33_RulesWellFormed ==
    /\ Len(smart_rules) <= 3
    /\ \A i, j \in DOMAIN smart_rules :
          i # j => smart_rules[i].cards # smart_rules[j].cards
    /\ \A i \in DOMAIN smart_rules :
          /\ Len(smart_rules[i].cards) = 2
          /\ smart_rules[i].count >= 1
    /\ \A i, j \in DOMAIN smart_rules :
          i < j => smart_rules[i].count >= smart_rules[j].count
    /\ SumCounts(smart_rules) <= Len(inter_data)
    /\ \A K \in DOMAIN sequential_history :
          Len(sequential_history[K].cartes) = 2
    /\ \A i \in DOMAIN inter_data : Len(inter_data[i].declencheur) = 2

\* ------------------------------------------------------------------------
\* Frame of the learned rules
\* ------------------------------------------------------------------------
\* C34: the handling of a message or an edit leaves the rule set and the
\* mode flag as they were, and a recomputation sets the rule set to the
\* top 3 of the log of that moment: between recomputations the rule set is
\* the top 3 of the log as it was at the last recomputation
C34_MessagesKeepRules ==
    [][/\ last'.kind \in {"message", "edited"}
            => /\ smart_rules' = smart_rules
               /\ is_inter_mode_active' = is_inter_mode_active
       /\ last'.kind = "inter_apply" => smart_rules' = top_3(inter_data)]_vars

\* a message appended a sample after a recomputation: the rule set is no
\* longer the top 3 of the log
C34_Witness ==
    /\ last.kind = "message" /\ last.appended
    /\ is_inter_mode_active
    /\ smart_rules # <<>>
    /\ smart_rules # top_3(inter_data)

\* ------------------------------------------------------------------------
\* Source filter
\* ------------------------------------------------------------------------
\* C35: a message or an edit of a chat other than the bound source channel,
\* a message received while no source channel is bound, and a new message
\* that is a command leave the records, the sample log, the rule set, the
\* mode flag and the prediction map as they were and send nothing
C35_OnlySourceDrives ==
    [][(/\ last'.kind \in {"message", "edited"}
        /\ \/ last'.chat # target_channel_id
           \/ target_channel_id = None
           \/ last'.kind = "message" /\ last'.msg.slash)
          => /\ UNCHANGED <<sequential_history, inter_data, smart_rules,
                            is_inter_mode_active, predictions>>
             /\ last'.sends = <<>>
             /\ ~last'.predict]_vars

\* a command of the bound source channel carries the game of a pending
\* prediction and is not processed
C35_Witness ==
    /\ last.kind = "message" /\ last.msg.slash
    /\ last.chat = target_channel_id
    /\ ~last.reached
    /\ last.msg.game \in DOMAIN predictions
    /\ predictions[last.msg.game].status = "pending"

\* a message of another chat while the source channel is bound
C35_OtherChatIgnored ==
    /\ last.kind \in {"message", "edited"} /\ ~last.msg.slash
    /\ target_channel_id # None /\ last.chat # target_channel_id
    /\ ~last.reached
    /\ predictions # EmptyDict

====
